---------------------------- MODULE Spec2Model ----------------------------
(***************************************************************************)
(* Request-admission pipeline of the AI gateway:                           *)
(*   app/auth/jwt_handler.py      token validation, JWKS cache             *)
(*   app/routing/router.py        access control, upstream forward         *)
(*   app/middleware/rate_limiter.py   Redis-backed quota counter           *)
(*   app/api/v1/endpoints.py      the HTTP handlers that chain them         *)
(* Every coroutine is cut at its awaits: the code between two awaits runs  *)
(* atomically on the event loop and is one action.                         *)
(***************************************************************************)
EXTENDS Integers, Sequences, FiniteSets, TLC

\* ------------------------------------------------------------------ bounds
MaxLimit == 2       \* limits passed to the limiter range over 0..MaxLimit
window == 3         \* check_rate_limit's window (60 s in the code), scaled down
jwks_cache_ttl == 2 \* JWTHandler._jwks_cache_ttl (3600 s in the code), scaled down
FarExp == 5         \* an `exp` further away than any run of the model lasts
DefaultLimit == 1   \* rate_limits.default of models.yaml
VipLimit == 2       \* rate_limits.by_group["vip"] of models.yaml

\* Two coroutines in flight at a time; each is reused once it has returned.
Reqs == {"r1", "r2"}
Limits == 0..MaxLimit

Max(a, b) == IF a >= b THEN a ELSE b
Min(a, b) == IF a <= b THEN a ELSE b

\* ------------------------------------------------------------------ names
Users == {"alice", "bob"}
\* model names a request may carry: one with an access rule, one without,
\* one that has no entry in models.yaml
ModelNames == {"gpt-4", "open", "gpt-x"}
\* every model name the configuration or a direct caller of the router may
\* mention
AccessModels == ModelNames \cup {"team", "secure", "bare", "ghost"}
\* the key f"ratelimit:{model_name}:{user_id}"
QuotaKey(model_name, user_id) == <<model_name, user_id>>
QuotaKeys == (ModelNames \cup {"default"}) \X Users
\* keys the direct callers of the limiter use
CheckKeys == {QuotaKey("open", "alice"), QuotaKey("open", "bob")}
\* the key concurrent callers contend on
RaceKeys == {QuotaKey("open", "alice")}

\* ------------------------------------------------------------------ tokens
\* A bearer token as the validator sees it.  form: "empty" (no token),
\* "garbage" (the header segment does not decode) or "jwt".  sig names the key
\* that signed it ("secret": the pre-shared jwt_secret_key, "k1"/"k2": the
\* private key of that key-id, "bad": none of them).  exp_in is exp - now.
\* missing names a required claim the payload lacks.  aud / iss are "absent",
\* "ok" (the configured audience / issuer) or "bad".
\* an integer field that is not in the JSON, and a value int() rejects
Missing == -1
NotANumber == -2
\* the rate_limit claim of the tokens the repository's tools issue, and the
\* default of AuthContext.rate_limit
DefaultRateLimit == 100
Tok(alg, kid, sig, exp_in, missing, aud, iss) ==
    [form |-> "jwt", alg |-> alg, kid |-> kid, sig |-> sig, exp_in |-> exp_in,
     missing |-> missing, aud |-> aud, iss |-> iss, sub |-> "alice",
     roles |-> <<>>, groups |-> <<>>, models |-> <<>>,
     oid |-> "none", preferred_username |-> "none", email |-> "none",
     rate_limit |-> Missing]
EmptyToken == [Tok("", "none", "bad", FarExp, "none", "absent", "absent")
                 EXCEPT !.form = "empty"]
GarbageToken == [Tok("", "none", "bad", FarExp, "none", "absent", "absent")
                   EXCEPT !.form = "garbage"]
\* exp in the past, or far away
ExpIns == {-1, FarExp}
\* the tokens handed to validate_token: a good one on each path and each way
\* of being wrong, expired and not; and three that expire within a second,
\* that is, possibly while the key set is being downloaded
HSTokens ==
    UNION {{Tok("HS256", "none", "secret", e, "none", "absent", "absent"),
            Tok("HS256", "none", "bad",    e, "none", "absent", "absent"),
            Tok("HS256", "none", "secret", e, "sub",  "absent", "absent"),
            Tok("HS256", "none", "secret", e, "exp",  "absent", "absent"),
            Tok("HS256", "none", "secret", e, "none", "ok",     "ok")} : e \in ExpIns}
RSTokens ==
    UNION {{Tok("RS256", "k1",   "k1",  e, "none", "ok",     "ok"),
            Tok("RS256", "none", "k1",  e, "none", "ok",     "ok"),
            Tok("RS256", "k2",   "k2",  e, "none", "ok",     "ok"),
            Tok("RS256", "k1",   "bad", e, "none", "ok",     "ok"),
            Tok("RS256", "k1",   "k1",  e, "sub",  "ok",     "ok"),
            Tok("RS256", "k1",   "k1",  e, "none", "bad",    "ok"),
            Tok("RS256", "k1",   "k1",  e, "none", "absent", "ok"),
            Tok("RS256", "k1",   "k1",  e, "none", "ok",     "bad"),
            Tok("RS256", "k1",   "k1",  e, "none", "ok",     "absent"),
            Tok("none",  "k1",   "k1",  e, "none", "ok",     "ok")} : e \in ExpIns}
ExpiringTokens ==
    {Tok("RS256", "k1", "k1",  0, "none", "ok", "ok"),
     Tok("RS256", "k2", "k2",  0, "none", "ok", "ok"),
     Tok("RS256", "k1", "bad", 0, "none", "ok", "ok")}
ValidateTokens ==
    {EmptyToken, GarbageToken} \cup HSTokens \cup RSTokens \cup ExpiringTokens

\* the bearer tokens of the HTTP requests: an administrator in group vip, a
\* plain user, a forged token, and a user whose token the remote issuer signed
GoodHS == [Tok("HS256", "none", "secret", FarExp, "none", "absent", "absent")
             EXCEPT !.rate_limit = DefaultRateLimit]
AdminToken == [GoodHS EXCEPT !.roles = <<"Admin">>, !.groups = <<"vip">>]
ForgedToken == [AdminToken EXCEPT !.sig = "bad"]
RemoteToken == [Tok("RS256", "k1", "k1", FarExp, "none", "ok", "ok")
                  EXCEPT !.roles = <<"user">>, !.rate_limit = DefaultRateLimit]
BearerTokens == {AdminToken, ForgedToken, RemoteToken}

\* ------------------------------------------------------------ models.yaml
\* credentials: none, the request's header key, the process's OPENAI_API_KEY,
\* the key written in models.yaml
Credentials == {"none", "hdrkey", "envkey", "cfgkey"}
\* config["models"].get(name, {}): an entry that is not there is the empty dict
NoEntry == [present |-> FALSE, endpoint |-> "none", api_key |-> "none",
            api_key_source |-> "none", auth_header |-> "none",
            auth_prefix |-> "none"]
\* models.yaml: gpt-4 with a key sent as `Authorization: Bearer <key>`, open
\* and bare without a key, team with a key sent bare in `api-key`, secure
\* without an endpoint; gpt-x and ghost have no entry
Entry(endpoint, api_key, auth_header, auth_prefix) ==
    [present |-> TRUE, endpoint |-> endpoint, api_key |-> api_key,
     api_key_source |-> "none", auth_header |-> auth_header,
     auth_prefix |-> auth_prefix]
StaticModels ==
    [m \in AccessModels |->
       CASE m = "gpt-4"  -> Entry("https://up/gpt-4", "cfgkey", "none", "Bearer")
         [] m = "open"   -> Entry("https://up/open", "none", "none", "none")
         [] m = "team"   -> Entry("https://up/team", "cfgkey", "api-key", "none")
         [] m = "bare"   -> Entry("https://up/bare", "none", "none", "none")
         [] m = "secure" -> Entry("none", "cfgkey", "none", "none")
         [] OTHER        -> NoEntry]
\* config["access_control"].get(name, {})
get_access_control(model_name) ==
    CASE model_name = "gpt-4" ->
           [defined |-> TRUE, roles |-> <<"admin">>, groups |-> <<>>]
      [] model_name = "team" ->
           [defined |-> TRUE, roles |-> <<>>, groups |-> <<"VIP">>]
      [] model_name = "secure" ->
           [defined |-> TRUE, roles |-> <<"Admin", "ops">>, groups |-> <<"vip">>]
      [] model_name = "bare" ->
           [defined |-> TRUE, roles |-> <<>>, groups |-> <<>>]
      [] model_name = "ghost" ->
           [defined |-> TRUE, roles |-> <<"admin">>, groups |-> <<>>]
      [] OTHER -> [defined |-> FALSE, roles |-> <<>>, groups |-> <<>>]
\* config["rate_limits"]["by_group"]
ByGroup(group_id) == IF group_id = "vip" THEN VipLimit ELSE -1
\* get_rate_limits(model_name, group_id): the group's override, else the
\* model's own rate_limit (none is configured), else the default
get_rate_limits(model_name, group_id) ==
    IF group_id # "none" /\ ByGroup(group_id) >= 0 THEN ByGroup(group_id)
    ELSE DefaultLimit

SeqToSet(q) == {q[i] : i \in 1..Len(q)}
\* str.lower() on the role and group names in use
Lower(str) ==
    CASE str = "Admin" -> "admin"
      [] str = "VIP" -> "vip"
      [] str \in {"Bearer", "BEARER"} -> "bearer"
      [] str = "Basic" -> "basic"
      [] str = "InvalidFormat" -> "invalidformat"
      [] OTHER -> str

\* ---------------------------------------------------------------- key sets
\* A JWKS document: its keys, each with a key-id and with or without an x5c
\* certificate chain.  received_ago is not part of the document: it counts
\* the seconds since the gateway received it, and only where the
\* specification follows that (TickKeys); elsewhere it stays 0.
NoJwks == [present |-> FALSE, keys |-> {}, received_ago |-> 0]
Jwks(keys) == [present |-> TRUE, keys |-> keys, received_ago |-> 0]
KeySetA == Jwks({[kid |-> "k1", x5c |-> TRUE]})
KeySetB == Jwks({[kid |-> "k2", x5c |-> TRUE], [kid |-> "k1", x5c |-> FALSE]})
KeySets == {KeySetA, KeySetB}

VARIABLES
    redis_up,    \* whether the Redis store answers
    counters,    \* Redis content: per key the integer value and its TTL
    jwks_cache,  \* JWTHandler._jwks_cache
    jwks_age,    \* now - JWTHandler._jwks_cache_time, capped at the TTL
    remote_up,   \* whether the discovery endpoint answers with a key set
    remote_keys, \* the key set the discovery endpoint publishes
    models_cfg,  \* ModelConfig._config["models"]
    env_api_key, \* the process's OPENAI_API_KEY
    req          \* per caller: position in its coroutine and its locals

storeVars == <<redis_up, counters>>
authVars == <<jwks_cache, jwks_age, remote_up, remote_keys>>
\* what the limiter's steps leave alone, and what the validator's steps do
cfgVars == <<models_cfg, env_api_key>>
notStore == <<authVars, cfgVars>>
notAuth == <<storeVars, cfgVars>>
vars == <<redis_up, counters, jwks_cache, jwks_age, remote_up, remote_keys,
          models_cfg, env_api_key, req>>

\* ------------------------------------------------------------ Redis store
\* A missing key: GET answers nil, TTL answers -2.
NoCounter == [count |-> 0, ttl |-> -2]

\* GET key, then `int(current) if current else 0`
redis_get(key) == counters[key].count

\* TTL key: remaining seconds, -2 when the key does not exist
redis_ttl(key) == counters[key].ttl

\* INCR takes effect without the EXPIRE
MutIncrOnly(key, w) ==
    [counters EXCEPT ![key] = [count |-> @.count + 1,
                               ttl |-> IF @.count = 0 THEN -1 ELSE @.ttl]]
\* pipe.incr(key); pipe.expire(key, window); pipe.execute()  (one MULTI/EXEC)
redis_incr_expire(key, w) ==
    [counters EXCEPT ![key] = [count |-> @.count + 1, ttl |-> w]]

\* ------------------------------------------------------ upstream replies
\* What the upstream does with a posted request: a 2xx with a JSON body, a
\* non-2xx status with some body, or no answer.  A usage sub-field is a
\* number, Missing, or NotANumber.
NoUsage == [present |-> FALSE, p |-> Missing, c |-> Missing, t |-> Missing]
Usage(p, c, t) == [present |-> TRUE, p |-> p, c |-> c, t |-> t]
Usages ==
    {NoUsage} \cup
    {Usage(p, c, t) : p \in {Missing, 0, 2}, c \in {Missing, 1},
                      t \in {Missing, 0, 3, 5}} \cup
    {Usage(2, NotANumber, 3)}
Reply(kind, code, body, usage) ==
    [kind |-> kind, code |-> code, body |-> body, usage |-> usage]
NoReply == Reply("none", 0, "none", NoUsage)
ErrorCodes == {400, 503}
\* bodies of a non-2xx answer: {"error": ...}, another JSON object, JSON that
\* is not an object, and text that is not JSON
ErrorBodies == {"error_object", "object", "array", "nonjson"}
Replies ==
    {Reply("ok", 200, "completion", u) : u \in Usages} \cup
    {Reply("ok", 200, b, NoUsage) : b \in {"nonjson", "no_id"}} \cup
    {Reply("status", c, b, NoUsage) : c \in ErrorCodes, b \in ErrorBodies} \cup
    {Reply("timeout", 0, "none", NoUsage),
     Reply("connect_error", 0, "none", NoUsage)}

\* --------------------------------------------------- Authorization header
\* The header as the handler sees it: absent (None), or the words that
\* authorization.split() yields.  "<token>" stands for the word that is the
\* request's token.
NoAuthz == [present |-> FALSE, parts |-> <<>>]
Authz(parts) == [present |-> TRUE, parts |-> parts]
BearerAuthz == Authz(<<"Bearer", "<token>">>)
BasicAuthz == Authz(<<"Basic", "<token>">>)
\* every shape of header a client sends: none, the empty string, one word,
\* the scheme without a token, another scheme, a third word, and the bearer
\* scheme in three spellings
Authzs ==
    {NoAuthz, Authz(<<>>), Authz(<<"InvalidFormat">>), Authz(<<"Bearer">>),
     BasicAuthz, Authz(<<"Bearer", "<token>", "extra">>),
     BearerAuthz, Authz(<<"bearer", "<token>">>), Authz(<<"BEARER", "<token>">>)}

\* ------------------------------------------------------------- callers
IdleReq == [pc |-> "idle", kind |-> "none",
            token |-> EmptyToken, fetch_age |-> 0, exc |-> "none",
            validated |-> FALSE,
            authz |-> NoAuthz, model |-> "open", api_key_hdr |-> "none",
            allowed |-> FALSE, posted |-> FALSE, sent_key |-> "none",
            trail |-> <<>>, failed_at |-> "none",
            key |-> QuotaKey("default", "alice"), limit |-> 0,
            current_count |-> 0, ttl |-> 0,
            status |-> 0, returned |-> FALSE,
            hdr_limit |-> 0, hdr_remaining |-> 0, retry_after |-> 0,
            used |-> 0, remaining |-> 0, reset_in |-> 0,
            store_error |-> FALSE, pre |-> 0, post |-> 0, existed |-> FALSE,
            sent_headers |-> {}, error |-> "none", reply |-> NoReply,
            usage |-> <<0, 0, 0>>,
            ctx |-> [ok |-> FALSE, user_id |-> "none", username |-> "none",
                     rate_limit |-> 0],
            health |-> "none", redis_status |-> "unknown",
            key_age |-> 0, secret |-> <<>>, mask |-> <<>>]

Init ==
    /\ redis_up = TRUE
    /\ counters = [k \in QuotaKeys |-> NoCounter]
    /\ jwks_cache = NoJwks
    /\ jwks_age = 0
    /\ remote_up = TRUE
    /\ remote_keys = KeySetA
    /\ models_cfg = StaticModels
    /\ env_api_key \in {"none", "envkey"}
    /\ req = [r \in Reqs |-> IdleReq]

\* the limiter and the validator on their own: no process-level credential
InitNoEnvKey == Init /\ env_api_key = "none"

\* A direct call check_rate_limit(auth_context, model_name, limit): the code up
\* to `await redis_client.get(key)`.
CallCheckOn(r, keys) ==
    /\ req[r].pc = "idle"
    /\ \E k \in keys, l \in Limits :
         req' = [req EXCEPT ![r] = [IdleReq EXCEPT !.pc = "rl_get", !.kind = "check",
                                                  !.key = k, !.limit = l]]
    /\ UNCHANGED <<redis_up, counters, notStore>>

CallCheck(r) == CallCheckOn(r, RaceKeys)

\* goes back to the limiter after it allowed
MutAfterAllowed(r) == IF req[r].kind = "chat" THEN "rl_get" ELSE "done"
\* where a coroutine goes when the limiter lets it through
AfterAllowed(r) == IF req[r].kind = "chat" THEN "bind" ELSE "done"

\* `except Exception: ... return True`
MutFailClosed(r) ==
    [req EXCEPT ![r].pc = "done", ![r].status = 500, ![r].store_error = TRUE]
FailOpen(r) ==
    [req EXCEPT ![r].pc = AfterAllowed(r), ![r].returned = TRUE,
                ![r].store_error = TRUE]

\* `current_count >= limit`
MutOverLimit(current_count, limit) == current_count > limit
OverLimit(current_count, limit) == current_count >= limit

\* GET answers; `current_count >= limit` decides which await comes next.
RL_Get(r) ==
    /\ req[r].pc = "rl_get"
    /\ IF ~redis_up
         THEN req' = FailOpen(r)
         ELSE LET c == redis_get(req[r].key) IN
              req' = [req EXCEPT ![r].current_count = c,
                                 ![r].pc = IF OverLimit(c, req[r].limit)
                                             THEN "rl_ttl" ELSE "rl_incr"]
    /\ UNCHANGED <<redis_up, counters, notStore>>

\* TTL answers; the 429 with its headers is raised.
RL_Ttl(r) ==
    /\ req[r].pc = "rl_ttl"
    /\ IF ~redis_up
         THEN req' = FailOpen(r)
         ELSE LET t == redis_ttl(req[r].key) IN
              req' = [req EXCEPT ![r].pc = "done", ![r].status = 429,
                                 ![r].failed_at = "quota",
                                 ![r].ttl = t,
                                 ![r].hdr_limit = req[r].limit,
                                 ![r].hdr_remaining = 0,
                                 ![r].retry_after = t,
                                 ![r].reset_in = t,
                                 ![r].existed = (redis_get(req[r].key) > 0),
                                 ![r].pre = redis_get(req[r].key),
                                 ![r].post = redis_get(req[r].key)]
    /\ UNCHANGED <<redis_up, counters, notStore>>

\* The INCR/EXPIRE pipeline executes; check_rate_limit returns True.
RL_Incr(r) ==
    /\ req[r].pc = "rl_incr"
    /\ IF ~redis_up
         THEN /\ req' = FailOpen(r)
              /\ UNCHANGED counters
         ELSE LET k == req[r].key IN
              /\ counters' = redis_incr_expire(k, window)
              /\ req' = [req EXCEPT ![r].pc = AfterAllowed(r),
                                    ![r].returned = TRUE,
                                    ![r].pre = redis_get(k),
                                    ![r].post = counters'[k].count]
    /\ UNCHANGED <<redis_up, notStore>>

\* A direct call get_rate_limit_status(auth_context, model_name, limit).
CallStatusOn(r, keys) ==
    /\ req[r].pc = "idle"
    /\ \E k \in keys, l \in Limits :
         req' = [req EXCEPT ![r] = [IdleReq EXCEPT !.pc = "st_get", !.kind = "status",
                                                  !.key = k, !.limit = l]]
    /\ UNCHANGED <<redis_up, counters, notStore>>

CallStatus(r) == CallStatusOn(r, RaceKeys)

\* the `except Exception` of get_rate_limit_status: full quota, reset in 60 s
StatusFailOpen(r) ==
    [req EXCEPT ![r].pc = "done", ![r].returned = TRUE, ![r].store_error = TRUE,
                ![r].used = 0, ![r].remaining = req[r].limit,
                ![r].reset_in = window]

ST_Get(r) ==
    /\ req[r].pc = "st_get"
    /\ IF ~redis_up
         THEN req' = StatusFailOpen(r)
         ELSE req' = [req EXCEPT ![r].current_count = redis_get(req[r].key),
                                 ![r].pc = "st_ttl"]
    /\ UNCHANGED <<redis_up, counters, notStore>>

\* "reset": int(time.time()) + max(0, ttl), kept as the offset from now
ResetOffset(ttl) == Max(0, ttl)

\* "remaining": max(0, limit - current_count)
Remaining(limit, current_count) == Max(0, limit - current_count)

ST_Ttl(r) ==
    /\ req[r].pc = "st_ttl"
    /\ IF ~redis_up
         THEN req' = StatusFailOpen(r)
         ELSE LET t == redis_ttl(req[r].key) IN
              req' = [req EXCEPT ![r].pc = "done", ![r].returned = TRUE,
                                 ![r].ttl = t,
                                 ![r].used = req[r].current_count,
                                 ![r].remaining =
                                     Remaining(req[r].limit, req[r].current_count),
                                 ![r].reset_in = ResetOffset(t),
                                 ![r].existed = (redis_get(req[r].key) > 0),
                                 ![r].pre = redis_get(req[r].key),
                                 ![r].post = redis_get(req[r].key)]
    /\ UNCHANGED <<redis_up, counters, notStore>>

\* The caller takes the result; the coroutine is gone.
Return(r) ==
    /\ req[r].pc = "done"
    /\ req' = [req EXCEPT ![r] = IdleReq]
    /\ UNCHANGED <<redis_up, counters, notStore>>

\* ------------------------------------------------------- token validation
\* jwt.get_unverified_header(token): raises JWTError unless the header decodes
HeaderDecodes(t) == t.form = "jwt"

\* _is_local_token: alg == "HS256", False when the header does not decode
is_local_token(t) == HeaderDecodes(t) /\ t.alg = "HS256"

\* jose's jwt.decode(token, key, algorithms, audience, issuer): the exception
\* it raises, or "ok".  Signature first, then exp, aud, iss in that order.
\* aud is compared whenever the token carries one (against None when no
\* audience is passed); iss only when an issuer is passed.
jwt_decode(t, key, algorithms, audience, issuer) ==
    IF ~HeaderDecodes(t) THEN "JWTError"
    ELSE IF t.alg \notin algorithms THEN "JWTError"
    ELSE IF t.sig # key THEN "JWTError"
    ELSE IF t.missing # "exp" /\ t.exp_in < 0 THEN "ExpiredSignatureError"
    ELSE IF t.aud # "absent" /\ t.aud # audience THEN "JWTClaimsError"
    ELSE IF issuer # "none" /\ t.iss # issuer THEN "JWTClaimsError"
    ELSE "ok"

\* TokenClaims(**payload): pydantic's ValidationError when sub, exp or iat is
\* not in the payload
TokenClaims(t) == IF t.missing # "none" THEN "ValidationError" ELSE "ok"

\* get_signing_key: the key-id of the first key whose kid matches and that has
\* an x5c chain, "none" otherwise (no header, no kid, no such key)
get_signing_key(t, jwks) ==
    IF ~HeaderDecodes(t) THEN "none"
    ELSE IF t.kid = "none" THEN "none"
    ELSE IF \E key \in jwks.keys : key.kid = t.kid /\ key.x5c THEN t.kid
    ELSE "none"

\* the HS256 branch of validate_token
LocalOutcome(t) ==
    LET d == jwt_decode(t, "secret", {"HS256"}, "none", "none") IN
    IF d # "ok" THEN d ELSE TokenClaims(t)

\* the RS256 branch of validate_token once the key set is at hand.  The
\* HTTPException(401) for a missing signing key is raised inside the try.
AsymOutcome(t, jwks) ==
    LET signing_key == get_signing_key(t, jwks) IN
    IF signing_key = "none" THEN "HTTPException"
    ELSE LET d == jwt_decode(t, signing_key, {"RS256"}, "ok", "ok") IN
         IF d # "ok" THEN d ELSE TokenClaims(t)

\* the except clauses of validate_token, in their order
HandlerStatus(exc) ==
    IF exc \in {"ExpiredSignatureError", "JWTClaimsError", "JWTError"}
      THEN 401 ELSE 500

\* where a coroutine goes once validate_token has returned claims
AfterValidated(rec) == IF rec.kind = "validate" THEN "done" ELSE "authed"

\* validate_token ends: claims are returned, or the handler's HTTPException
Validated(rec, outcome) ==
    IF outcome = "ok"
      THEN [rec EXCEPT !.pc = AfterValidated(rec), !.validated = TRUE,
                       !.returned = (rec.kind = "validate")]
      ELSE [rec EXCEPT !.pc = "done", !.exc = outcome,
                       !.status = HandlerStatus(outcome),
                       !.failed_at = "validate"]

MutCacheFresh == jwks_cache.present
\* serves the cached set whatever its age
MutNeverStale == jwks_cache.present /\ jwks_age >= 0
\* _fetch_jwks serves the cache while it is younger than the TTL
CacheFresh == jwks_cache.present /\ jwks_age < jwks_cache_ttl

\* validate_token up to its only await, the key-set download
ValidateBegin(rec) ==
    IF rec.token.form = "empty"
      THEN [rec EXCEPT !.pc = "done", !.exc = "MissingToken", !.status = 401,
                       !.failed_at = "validate"]
    ELSE IF is_local_token(rec.token)
      THEN Validated(rec, LocalOutcome(rec.token))
    ELSE IF CacheFresh
      THEN Validated([rec EXCEPT !.key_age = jwks_cache.received_ago],
                     AsymOutcome(rec.token, jwks_cache))
    ELSE [rec EXCEPT !.pc = "fetching", !.fetch_age = 0]

\* A direct call validate_token(token).
CallValidateOn(r, tokens) ==
    /\ req[r].pc = "idle"
    /\ \E t \in tokens :
         req' = [req EXCEPT ![r] =
                    ValidateBegin([IdleReq EXCEPT !.kind = "validate", !.token = t])]
    /\ UNCHANGED <<authVars, notAuth>>

CallValidate(r) == CallValidateOn(r, ValidateTokens)

MutFetchFailed(rec) == Validated(rec, AsymOutcome(rec.token, jwks_cache))
\* client.get or raise_for_status raises inside _fetch_jwks: nothing catches
\* it before the `except Exception` of validate_token
FetchFailed(rec) == Validated(rec, "FetchError")

\* adds the downloaded keys to the cached ones
MutStoreJwks(rec, fetched) ==
    [cache |-> IF jwks_cache.present
                 THEN Jwks(jwks_cache.keys \cup fetched.keys) ELSE fetched,
     age |-> rec.fetch_age]
\* `self._jwks_cache = response.json(); self._jwks_cache_time = current_time`:
\* the whole document, and the time this coroutine read before its request
StoreJwks(rec, fetched) == [cache |-> fetched, age |-> rec.fetch_age]

\* The discovery endpoint answers: the cache is replaced and stamped with the
\* time read before the request went out; or the download raises.
V_FetchDone(r) ==
    /\ req[r].pc = "fetching"
    /\ IF remote_up
         THEN /\ jwks_cache' = StoreJwks(req[r], remote_keys).cache
              /\ jwks_age' = StoreJwks(req[r], remote_keys).age
              /\ req' = [req EXCEPT ![r] =
                           Validated(req[r], AsymOutcome(req[r].token, remote_keys))]
         ELSE /\ req' = [req EXCEPT ![r] = FetchFailed(req[r])]
              /\ UNCHANGED <<jwks_cache, jwks_age>>
    /\ UNCHANGED <<remote_up, remote_keys, notAuth>>

\* ------------------------------------------------------- access control
\* the lower-cased names a rule requires and a caller holds
RuleRoles(m) == {Lower(x) : x \in SeqToSet(get_access_control(m).roles)}
RuleGroups(m) == {Lower(x) : x \in SeqToSet(get_access_control(m).groups)}
HeldRoles(t) == {Lower(x) : x \in SeqToSet(t.roles)}
HeldGroups(t) == {Lower(x) : x \in SeqToSet(t.groups)}
\* `model_name in auth_context.models`
Granted(t, m) == m \in SeqToSet(t.models)
\* each requirement as an any-of test, passed when nothing is required
RolesOk(t, m) == RuleRoles(m) = {} \/ RuleRoles(m) \cap HeldRoles(t) # {}
GroupsOk(t, m) == RuleGroups(m) = {} \/ RuleGroups(m) \cap HeldGroups(t) # {}

\* denies when no rule is configured
MutDenyNoRule(t, m) ==
    get_access_control(m).defined /\ (Granted(t, m) \/ (RolesOk(t, m) /\ GroupsOk(t, m)))
\* compares the caller's role names as they are spelled
MutCaseSensitive(t, m) ==
    \/ ~get_access_control(m).defined
    \/ Granted(t, m)
    \/ /\ RuleRoles(m) = {} \/ RuleRoles(m) \cap SeqToSet(t.roles) # {}
       /\ GroupsOk(t, m)
\* ignores the granted-model list
MutNoGrant(t, m) ==
    ~get_access_control(m).defined \/ (RolesOk(t, m) /\ GroupsOk(t, m))
\* with both lists required, one satisfied requirement suffices
MutEitherSuffices(t, m) ==
    \/ ~get_access_control(m).defined
    \/ Granted(t, m)
    \/ IF RuleRoles(m) # {} /\ RuleGroups(m) # {}
         THEN RuleRoles(m) \cap HeldRoles(t) # {} \/ RuleGroups(m) \cap HeldGroups(t) # {}
         ELSE RolesOk(t, m) /\ GroupsOk(t, m)

\* denies while another request is being handled
MutBusyDenies(t, m) ==
    /\ \A q \in Reqs : req[q].pc = "idle"
    /\ ~get_access_control(m).defined \/ Granted(t, m) \/ (RolesOk(t, m) /\ GroupsOk(t, m))
\* ModelRouter.check_access(auth_context, model_name)
check_access(t, model_name) ==
    LET access_control == get_access_control(model_name)
        user_roles == {Lower(x) : x \in SeqToSet(t.roles)}
        user_groups == {Lower(x) : x \in SeqToSet(t.groups)}
        required_roles == {Lower(x) : x \in SeqToSet(access_control.roles)}
        required_groups == {Lower(x) : x \in SeqToSet(access_control.groups)}
    IN  IF ~access_control.defined THEN TRUE
        ELSE IF model_name \in SeqToSet(t.models) THEN TRUE
        ELSE IF required_roles # {} /\ required_roles \cap user_roles = {} THEN FALSE
        ELSE IF required_groups # {} /\ required_groups \cap user_groups = {} THEN FALSE
        ELSE TRUE

\* --------------------------------------------------- POST /chat/completions
\* TokenClaims.user_id: `self.oid or self.sub`
user_id(t) == IF t.oid # "none" THEN t.oid ELSE t.sub
\* TokenClaims.username: `preferred_username or email or user_id`
username(t) ==
    IF t.preferred_username # "none" THEN t.preferred_username
    ELSE IF t.email # "none" THEN t.email
    ELSE user_id(t)
NoContext == [ok |-> FALSE, user_id |-> "none", username |-> "none",
              rate_limit |-> 0]
\* AuthContext.from_claims: rate_limit is additional_data.get('rate_limit',
\* 100), and claims.dict() always has that key, so a token without the claim
\* hands None to the int field and pydantic raises ValidationError
from_claims(t) ==
    IF t.rate_limit = Missing THEN NoContext
    ELSE [ok |-> TRUE, user_id |-> user_id(t), username |-> username(t),
          rate_limit |-> t.rate_limit]
\* JWTHandler.get_auth_context after validate_token returned: the context, or
\* the ValidationError, which nothing catches before the server's 500
ContextBuilt(rec) ==
    IF from_claims(rec.token).ok
      THEN [rec EXCEPT !.pc = "done", !.ctx = from_claims(rec.token),
                       !.returned = TRUE]
      ELSE [rec EXCEPT !.pc = "done", !.exc = "ValidationError",
                       !.status = 500, !.failed_at = "validate"]

\* get_auth_context: the Authorization header must be `Bearer <token>`; then
\* validate_token runs up to its await.
Unauthorized(rec) ==
    [rec EXCEPT !.pc = "done", !.status = 401, !.failed_at = "header"]
\* takes the second word as the token whenever the first is the scheme
MutGet_auth_context(rec) ==
    IF ~rec.authz.present \/ rec.authz.parts = <<>>
      THEN Unauthorized(rec)
    ELSE IF Len(rec.authz.parts) < 2 \/ Lower(rec.authz.parts[1]) # "bearer"
      THEN Unauthorized(rec)
    ELSE ValidateBegin([rec EXCEPT !.trail = <<"validate">>])
get_auth_context(rec) ==
    IF ~rec.authz.present \/ rec.authz.parts = <<>>
      THEN Unauthorized(rec)
    ELSE IF Len(rec.authz.parts) # 2 \/ Lower(rec.authz.parts[1]) # "bearer"
      THEN Unauthorized(rec)
    ELSE ValidateBegin([rec EXCEPT !.trail = <<"validate">>])

\* A chat request arrives and its auth dependency runs.
ChatArriveOn(r, tokens, models, hdrs) ==
    /\ req[r].pc = "idle"
    /\ \/ \E a \in {NoAuthz, BasicAuthz} :
            req' = [req EXCEPT ![r] =
                      get_auth_context([IdleReq EXCEPT !.kind = "chat", !.authz = a])]
       \/ \E t \in tokens, m \in models, h \in hdrs :
            req' = [req EXCEPT ![r] =
                      get_auth_context([IdleReq EXCEPT !.kind = "chat",
                                          !.authz = BearerAuthz, !.token = t,
                                          !.model = m, !.api_key_hdr = h])]
    /\ UNCHANGED <<authVars, notAuth>>
ChatArrive(r) == ChatArriveOn(r, BearerTokens, ModelNames, {"none", "hdrkey"})

\* `if not is_allowed: raise HTTPException(403)`
MutDeny403(rec) ==
    [rec EXCEPT !.pc = "rl_get", !.trail = rec.trail \o <<"access", "quota">>,
                !.key = QuotaKey(rec.model, user_id(rec.token))]
Deny403(rec) ==
    [rec EXCEPT !.pc = "done", !.status = 403, !.failed_at = "access",
                !.trail = rec.trail \o <<"access">>]

\* The auth dependency builds the AuthContext; then the handler body up to
\* the limiter's first await: the access check, the limit from the
\* configuration, the quota key.
Chat_Begin(r) ==
    /\ req[r].pc = "authed" /\ req[r].kind = "chat"
    /\ LET rec == req[r]
           group_id == IF Len(rec.token.groups) > 0 THEN rec.token.groups[1]
                       ELSE "none"
       IN  req' = [req EXCEPT ![r] =
              IF ~from_claims(rec.token).ok
                THEN ContextBuilt(rec)
              ELSE IF ~check_access(rec.token, rec.model)
                THEN Deny403(rec)
                ELSE [rec EXCEPT !.pc = "rl_get", !.allowed = TRUE,
                                 !.trail = rec.trail \o <<"access", "quota">>,
                                 !.key = QuotaKey(rec.model, user_id(rec.token)),
                                 !.limit = get_rate_limits(rec.model, group_id)]]
    /\ UNCHANGED <<storeVars, authVars, cfgVars>>

\* effective_api_key = header_api_key or env_api_key or cfg_api_key
EffectiveKey(rec) ==
    IF rec.api_key_hdr # "none" THEN rec.api_key_hdr
    ELSE IF env_api_key # "none" THEN env_api_key
    ELSE models_cfg[rec.model].api_key

\* the in-place write of the resolved key into model_config._config["models"]
Bound(rec) ==
    IF EffectiveKey(rec) = "none" THEN models_cfg
    ELSE [models_cfg EXCEPT ![rec.model] =
            [@ EXCEPT !.present = TRUE, !.api_key = EffectiveKey(rec),
                      !.api_key_source =
                          IF rec.api_key_hdr # "none" THEN "header" ELSE "env"]]

\* the token string the caller sent, which auth_context.token carries
RawToken(t) == IF t.sub = "alice" THEN "jwt-alice" ELSE "jwt-bob"
\* also copies the inbound Authorization header
MutBuildHeaders(rec, entry) ==
    {[name |-> "Content-Type", prefix |-> "none", value |-> "application/json"],
     [name |-> "Authorization", prefix |-> "Bearer", value |-> RawToken(rec.token)]}
\* the outbound headers: Content-Type, and the entry's key under its
\* auth_header (default Authorization) with its auth_prefix when it has a key
BuildHeaders(rec, entry) ==
    {[name |-> "Content-Type", prefix |-> "none", value |-> "application/json"]}
    \cup IF entry.api_key = "none" THEN {}
         ELSE {[name |-> IF entry.auth_header = "none" THEN "Authorization"
                         ELSE entry.auth_header,
                prefix |-> entry.auth_prefix, value |-> entry.api_key]}
\* an HTTPException raised before the outbound call
RouteFailed(at, code, error) ==
    [at EXCEPT !.pc = "done", !.status = code, !.failed_at = "forward",
               !.error = error]

\* tests the endpoint before the access check
MutRouted(rec, entry) ==
    LET at == [rec EXCEPT !.trail = rec.trail \o <<"forward">>] IN
    IF ~entry.present
      THEN RouteFailed(at, 404, "ModelNotFound")
    ELSE IF entry.endpoint = "none"
      THEN RouteFailed(at, 500, "MisconfiguredModel")
    ELSE IF ~check_access(rec.token, rec.model)
      THEN RouteFailed(at, 403, "AccessDenied")
    ELSE [at EXCEPT !.pc = "upstream", !.posted = TRUE,
                    !.sent_key = entry.api_key,
                    !.sent_headers = BuildHeaders(rec, entry)]
\* route_request up to `await client.post`: 404 without an entry, 403 when
\* the access check denies, 500 without an endpoint, else the outbound call
Routed(rec, entry) ==
    LET at == [rec EXCEPT !.trail = rec.trail \o <<"forward">>] IN
    IF ~entry.present
      THEN RouteFailed(at, 404, "ModelNotFound")
    ELSE IF ~check_access(rec.token, rec.model)
      THEN RouteFailed(at, 403, "AccessDenied")
    ELSE IF entry.endpoint = "none"
      THEN RouteFailed(at, 500, "MisconfiguredModel")
    ELSE [at EXCEPT !.pc = "upstream", !.posted = TRUE,
                    !.sent_key = entry.api_key,
                    !.sent_headers = BuildHeaders(rec, entry)]

\* After the limiter returned: the credential is resolved and written into
\* the shared table, the audit line is logged, route_request runs up to the
\* outbound call.  No await separates these.
Bind_Route(r) ==
    /\ req[r].pc = "bind"
    /\ models_cfg' = Bound(req[r])
    /\ req' = [req EXCEPT ![r] = Routed(req[r], models_cfg'[req[r].model])]
    /\ UNCHANGED <<storeVars, authVars, env_api_key>>

\* The upstream answers: a 2xx body, a non-2xx status, or the call raises.
Upstream_Respond(r) ==
    /\ req[r].pc = "upstream"
    /\ \/ req' = [req EXCEPT ![r].pc = "done", ![r].status = 200]
       \/ \E code \in {400, 503} :
            req' = [req EXCEPT ![r].pc = "done", ![r].status = code,
                               ![r].failed_at = "forward"]
       \/ req' = [req EXCEPT ![r].pc = "done", ![r].status = 500,
                             ![r].failed_at = "forward"]
    /\ UNCHANGED <<storeVars, authVars, cfgVars>>

\* ------------------------------------------------------- GET /rate-limit
\* A status request arrives and its auth dependency runs.
RateLimitArriveOn(r, authzs, tokens) ==
    /\ req[r].pc = "idle"
    /\ \E a \in authzs, t \in tokens :
         req' = [req EXCEPT ![r] =
                   get_auth_context([IdleReq EXCEPT !.kind = "ratelimit",
                                                    !.authz = a, !.token = t])]
    /\ UNCHANGED <<authVars, notAuth>>

\* The auth dependency builds the AuthContext; then the handler up to the
\* first await of get_rate_limit_status.  get_rate_limits is called with one
\* argument, so the caller's first group (or "default") is its model_name and
\* its group_id is None; the status is asked for the model name 'default'.
RateLimit_Begin(r) ==
    /\ req[r].pc = "authed" /\ req[r].kind = "ratelimit"
    /\ LET rec == req[r]
           first_group == IF Len(rec.token.groups) > 0 THEN rec.token.groups[1]
                          ELSE "default"
       IN  req' = [req EXCEPT ![r] =
              IF ~from_claims(rec.token).ok
                THEN ContextBuilt(rec)
                ELSE [rec EXCEPT !.pc = "st_get",
                                 !.trail = rec.trail \o <<"status">>,
                                 !.key = QuotaKey("default", user_id(rec.token)),
                                 !.limit = get_rate_limits(first_group, "none")]]
    /\ UNCHANGED <<storeVars, authVars, cfgVars>>

\* ------------------------------------------------------------ GET /health
\* A health request arrives: no auth dependency; get_redis creates the client
\* without connecting; the handler waits for the PING.
HealthArrive(r) ==
    /\ req[r].pc = "idle"
    /\ req' = [req EXCEPT ![r] = [IdleReq EXCEPT !.kind = "health", !.pc = "ping"]]
    /\ UNCHANGED <<storeVars, authVars, cfgVars>>

\* a store that does not answer makes the endpoint fail
MutHealthResponse(rec, answered) ==
    IF answered
      THEN [rec EXCEPT !.pc = "done", !.status = 200, !.returned = TRUE,
                       !.redis_status = "connected", !.health = "healthy"]
      ELSE [rec EXCEPT !.pc = "done", !.status = 503, !.store_error = TRUE]
\* redis_status is "connected" or the text of the exception; status follows it
HealthResponse(rec, answered) ==
    LET redis_status == IF answered THEN "connected" ELSE "error" IN
    [rec EXCEPT !.pc = "done", !.status = 200, !.returned = TRUE,
                !.store_error = ~answered,
                !.redis_status = redis_status,
                !.health = IF redis_status = "connected" THEN "healthy"
                           ELSE "unhealthy"]

\* The PING answers or raises; the response is built either way.
Health_Ping(r) ==
    /\ req[r].pc = "ping"
    /\ req' = [req EXCEPT ![r] = HealthResponse(req[r], redis_up)]
    /\ UNCHANGED <<storeVars, authVars, cfgVars>>

\* ---------------------------------------------------------------- masking
\* A secret is the sequence of its characters.
\* "*" * n: the empty string when n is not positive
Stars(n) == [i \in 1..Max(n, 0) |-> "*"]
\* k[-visible:]: the last `visible` characters, all of k when it is shorter
LastChars(k, visible) == SubSeq(k, Max(Len(k) - visible, 0) + 1, Len(k))
\* shows the last 4 characters of every secret
MutRouter_mask_key(key) ==
    IF key = <<>> THEN <<>> ELSE Stars(Len(key) - 4) \o LastChars(key, 4)
\* _mask_key of routing/router.py
router_mask_key(key) ==
    IF key = <<>> THEN <<>>
    ELSE LET visible == IF Len(key) <= 6 THEN 2 ELSE 4
         IN  Stars(Len(key) - visible) \o LastChars(key, visible)
\* _mask_key of api/v1/endpoints.py
endpoints_mask_key(key) ==
    IF key = <<>> THEN <<>>
    ELSE LET visible == IF Len(key) > 6 THEN 4 ELSE 2
         IN  Stars(Len(key) - visible) \o LastChars(key, visible)

\* "sk-abcdef123456"
ExampleSecret ==
    <<"s", "k", "-", "a", "b", "c", "d", "e", "f", "1", "2", "3", "4", "5", "6">>
\* the secrets handed to _mask_key: the empty one, every prefix of the example
\* (1 to 15 characters), every string over {x, *} of up to ShortLen
\* characters, and seven stars
ShortLen == 3
Secrets ==
    {SubSeq(ExampleSecret, 1, n) : n \in 0..Len(ExampleSecret)}
    \cup UNION {[1..n -> {"x", "*"}] : n \in 1..ShortLen}
    \cup {Stars(7)}

\* A call _mask_key(key) of either module.
CallMask(r) ==
    /\ req[r].pc = "idle"
    /\ \E s \in Secrets :
         \/ req' = [req EXCEPT ![r] =
                      [IdleReq EXCEPT !.pc = "done", !.kind = "router_mask",
                                      !.secret = s, !.mask = router_mask_key(s),
                                      !.returned = TRUE]]
         \/ req' = [req EXCEPT ![r] =
                      [IdleReq EXCEPT !.pc = "done", !.kind = "endpoints_mask",
                                      !.secret = s, !.mask = endpoints_mask_key(s),
                                      !.returned = TRUE]]
    /\ UNCHANGED <<storeVars, authVars, cfgVars>>

NextMask ==
    \/ \E r \in Reqs : CallMask(r)
    \/ \E r \in Reqs : Return(r)

SpecMask == InitNoEnvKey /\ [][NextMask]_vars

\* ------------------------------------------------------------- environment
\* a coroutine suspended at an await
InFlight(r) == req[r].pc \notin {"idle", "done"}
\* one second later: a token still waiting to be decoded is a second nearer to
\* (or past) its exp (exp is read by jwt.decode only), and a pending key-set
\* fetch started a second longer ago
Aged(rec) ==
    [rec EXCEPT !.token.exp_in = IF rec.pc = "fetching" /\ @ \in 0..(FarExp - 1)
                                  THEN @ - 1 ELSE @,
                !.fetch_age = IF rec.pc = "fetching"
                                THEN Min(@ + 1, jwks_cache_ttl) ELSE @]
\* One second passes: Redis counts every TTL down and drops a key at 0.
\* Time is kept relative (TTLs, ages); int(time.time()) itself is not stored,
\* and a timestamp the code computes as now + x is kept as the offset x.
TickWith(cache_after) ==
    /\ counters' = [k \in QuotaKeys |->
                      IF counters[k].ttl > 1
                        THEN [counters[k] EXCEPT !.ttl = @ - 1]
                      ELSE IF counters[k].ttl = 1 THEN NoCounter
                      ELSE counters[k]]
    /\ jwks_age' = IF jwks_cache.present
                     THEN Min(jwks_age + 1, jwks_cache_ttl) ELSE jwks_age
    /\ req' = [r \in Reqs |-> IF InFlight(r) THEN Aged(req[r]) ELSE req[r]]
    /\ jwks_cache' = cache_after
    /\ UNCHANGED <<redis_up, remote_up, remote_keys, cfgVars>>

Tick == TickWith(jwks_cache)

\* the same second, with the time since the cached set was received counted
\* (up to one second past the TTL)
TickKeys ==
    TickWith(IF jwks_cache.present
               THEN [jwks_cache EXCEPT !.received_ago = Min(@ + 1, jwks_cache_ttl + 1)]
               ELSE jwks_cache)

RedisDown ==
    /\ redis_up
    /\ redis_up' = FALSE
    /\ UNCHANGED <<counters, req, notStore>>

RedisUp ==
    /\ ~redis_up
    /\ redis_up' = TRUE
    /\ UNCHANGED <<counters, req, notStore>>

RemoteDown ==
    /\ remote_up
    /\ remote_up' = FALSE
    /\ UNCHANGED <<jwks_cache, jwks_age, remote_keys, req, notAuth>>

RemoteUp ==
    /\ ~remote_up
    /\ remote_up' = TRUE
    /\ UNCHANGED <<jwks_cache, jwks_age, remote_keys, req, notAuth>>

\* The issuer rotates its signing keys.
RemoteRotate ==
    /\ \E ks \in KeySets \ {remote_keys} : remote_keys' = ks
    /\ UNCHANGED <<jwks_cache, jwks_age, remote_up, req, notAuth>>

\* ----------------------------------------------- validator under its callers
NextAuth ==
    \/ \E r \in Reqs : CallValidate(r)
    \/ \E r \in Reqs : V_FetchDone(r)
    \/ \E r \in Reqs : Return(r)
    \/ Tick
    \/ RemoteDown
    \/ RemoteUp
    \/ RemoteRotate

SpecAuth == InitNoEnvKey /\ [][NextAuth]_vars

\* ------------------------------------------- the age of the cached key set
\* RS256 validations of tokens signed with either published key, with the time
\* since the cached set was received followed.
KeyAgeTokens ==
    {Tok("RS256", "k1", "k1", FarExp, "none", "ok", "ok"),
     Tok("RS256", "k2", "k2", FarExp, "none", "ok", "ok")}

CallValidateKeys(r) == CallValidateOn(r, KeyAgeTokens)

NextKeyAge ==
    \/ \E r \in Reqs : CallValidateKeys(r)
    \/ \E r \in Reqs : V_FetchDone(r)
    \/ \E r \in Reqs : Return(r)
    \/ TickKeys
    \/ RemoteDown
    \/ RemoteUp
    \/ RemoteRotate

SpecKeyAge == InitNoEnvKey /\ [][NextKeyAge]_vars

\* ------------------------------------------------- limiter under its callers
NextQuota ==
    \/ \E r \in Reqs : CallCheck(r)
    \/ \E r \in Reqs : CallStatus(r)
    \/ \E r \in Reqs : RL_Get(r)
    \/ \E r \in Reqs : RL_Ttl(r)
    \/ \E r \in Reqs : RL_Incr(r)
    \/ \E r \in Reqs : ST_Get(r)
    \/ \E r \in Reqs : ST_Ttl(r)
    \/ \E r \in Reqs : Return(r)
    \/ Tick
    \/ RedisDown
    \/ RedisUp

SpecQuota == InitNoEnvKey /\ [][NextQuota]_vars

\* --------------------------------------------- one limiter call at a time
OthersIdle(r) == \A q \in Reqs \ {r} : req[q].pc = "idle"

SeqCallCheck(r) == OthersIdle(r) /\ CallCheckOn(r, CheckKeys)
SeqCallStatus(r) == OthersIdle(r) /\ CallStatusOn(r, CheckKeys)

NextSeq ==
    \/ \E r \in Reqs : SeqCallCheck(r)
    \/ \E r \in Reqs : SeqCallStatus(r)
    \/ \E r \in Reqs : RL_Get(r)
    \/ \E r \in Reqs : RL_Ttl(r)
    \/ \E r \in Reqs : RL_Incr(r)
    \/ \E r \in Reqs : ST_Get(r)
    \/ \E r \in Reqs : ST_Ttl(r)
    \/ \E r \in Reqs : Return(r)
    \/ Tick
    \/ RedisDown
    \/ RedisUp

SpecSeq == InitNoEnvKey /\ [][NextSeq]_vars

\* ------------------------------------------------------------ the gateway
\* Each client in Reqs posts one chat request; the two requests interleave at
\* every await.  The identity provider stays reachable here (its outages are
\* explored under SpecAuth).
Next ==
    \/ \E r \in Reqs : ChatArrive(r)
    \/ \E r \in Reqs : V_FetchDone(r)
    \/ \E r \in Reqs : Chat_Begin(r)
    \/ \E r \in Reqs : RL_Get(r)
    \/ \E r \in Reqs : RL_Ttl(r)
    \/ \E r \in Reqs : RL_Incr(r)
    \/ \E r \in Reqs : Bind_Route(r)
    \/ \E r \in Reqs : Upstream_Respond(r)
    \/ Tick
    \/ RedisDown
    \/ RedisUp

Spec == Init /\ [][Next]_vars

\* ----------------------------------------------- the three endpoints
\* Clients of one user call /chat/completions for one model, /rate-limit and
\* /health, with every shape of Authorization header.
EndpointTokens == {AdminToken, RemoteToken}

ChatPost(r) ==
    /\ req[r].pc = "idle"
    /\ \E a \in Authzs, t \in EndpointTokens :
         req' = [req EXCEPT ![r] =
                   get_auth_context([IdleReq EXCEPT !.kind = "chat", !.authz = a,
                                                    !.token = t, !.model = "open"])]
    /\ UNCHANGED <<authVars, notAuth>>

RateLimitArrive(r) == RateLimitArriveOn(r, Authzs, EndpointTokens)

NextEndpoints ==
    \/ \E r \in Reqs : ChatPost(r)
    \/ \E r \in Reqs : RateLimitArrive(r)
    \/ \E r \in Reqs : V_FetchDone(r)
    \/ \E r \in Reqs : Chat_Begin(r)
    \/ \E r \in Reqs : RateLimit_Begin(r)
    \/ \E r \in Reqs : RL_Get(r)
    \/ \E r \in Reqs : RL_Ttl(r)
    \/ \E r \in Reqs : RL_Incr(r)
    \/ \E r \in Reqs : ST_Get(r)
    \/ \E r \in Reqs : ST_Ttl(r)
    \/ \E r \in Reqs : Bind_Route(r)
    \/ \E r \in Reqs : Upstream_Respond(r)
    \/ \E r \in Reqs : Return(r)

SpecEndpoints == InitNoEnvKey /\ [][NextEndpoints]_vars

\* ------------------------------------------- /health beside the limiter
\* Health probes arrive while chat requests are inside the limiter and the
\* store goes away and comes back.
NextHealth ==
    \/ \E r \in Reqs : HealthArrive(r)
    \/ \E r \in Reqs : Health_Ping(r)
    \/ \E r \in Reqs : CallCheck(r)
    \/ \E r \in Reqs : RL_Get(r)
    \/ \E r \in Reqs : RL_Ttl(r)
    \/ \E r \in Reqs : RL_Incr(r)
    \/ \E r \in Reqs : Return(r)
    \/ RedisDown
    \/ RedisUp

SpecHealth == InitNoEnvKey /\ [][NextHealth]_vars

\* ------------------------------------------------ the gateway, scheduled
\* Two clients post to the same model, so that they meet on one counter; the
\* event loop resumes every coroutine whose await has completed, and every
\* I/O wait ends (with an answer, an error or a timeout).
ChatArriveSame(r) ==
    ChatArriveOn(r, {AdminToken, RemoteToken}, {"open"}, {"none"})

NextFair ==
    \/ \E r \in Reqs : ChatArriveSame(r)
    \/ \E r \in Reqs : V_FetchDone(r)
    \/ \E r \in Reqs : Chat_Begin(r)
    \/ \E r \in Reqs : RL_Get(r)
    \/ \E r \in Reqs : RL_Ttl(r)
    \/ \E r \in Reqs : RL_Incr(r)
    \/ \E r \in Reqs : Bind_Route(r)
    \/ \E r \in Reqs : Upstream_Respond(r)
    \/ Tick
    \/ RedisDown
    \/ RedisUp

Resumed(r) ==
    /\ WF_vars(V_FetchDone(r)) /\ WF_vars(Chat_Begin(r))
    /\ WF_vars(RL_Get(r)) /\ WF_vars(RL_Ttl(r)) /\ WF_vars(RL_Incr(r))
    /\ WF_vars(Bind_Route(r)) /\ WF_vars(Upstream_Respond(r))

SpecFair == Init /\ [][NextFair]_vars /\ \A r \in Reqs : Resumed(r)

\* ------------------------------------------------- check_access on its own
\* the models a rule may be asked about, and the role, group and granted-model
\* lists of the callers
RoleLists == {<<>>, <<"user">>, <<"Admin">>, <<"user", "ops">>}
GroupLists == {<<>>, <<"vip">>, <<"staff">>}
GrantLists == {<<>>, <<"gpt-4">>, <<"secure", "team">>}
Contexts ==
    {[GoodHS EXCEPT !.roles = ro, !.groups = g, !.models = ms] :
        ro \in RoleLists, g \in GroupLists, ms \in GrantLists}

\* A direct call check_access(auth_context, model_name).
CallCheckAccess(r) ==
    /\ req[r].pc = "idle"
    /\ \E t \in Contexts, m \in AccessModels :
         req' = [req EXCEPT ![r] =
                    [IdleReq EXCEPT !.pc = "done", !.kind = "access",
                                    !.token = t, !.model = m,
                                    !.allowed = check_access(t, m),
                                    !.returned = TRUE]]
    /\ UNCHANGED <<storeVars, authVars, cfgVars>>

NextAccess ==
    \/ \E r \in Reqs : CallCheckAccess(r)
    \/ \E r \in Reqs : Return(r)

SpecAccess == InitNoEnvKey /\ [][NextAccess]_vars

\* ------------------------------------------------ route_request on its own
\* the usage rewrite of route_request: each sub-field defaults to 0, the total
\* to the sum when it is missing or 0; all zeros when int() raises
normalize_usage(u) ==
    IF ~u.present THEN <<0, 0, 0>>
    ELSE IF NotANumber \in {u.p, u.c, u.t} THEN <<0, 0, 0>>
    ELSE LET prompt_tokens == IF u.p = Missing THEN 0 ELSE u.p
             completion_tokens == IF u.c = Missing THEN 0 ELSE u.c
             total_tokens == IF u.t = Missing \/ u.t = 0
                               THEN prompt_tokens + completion_tokens
                             ELSE u.t
         IN  <<prompt_tokens, completion_tokens, total_tokens>>

\* the request ends with an error the caller sees
Failed(rec, rp, code, error) ==
    [rec EXCEPT !.pc = "done", !.reply = rp, !.status = code,
                !.failed_at = "forward", !.error = error]

\* route_request from the answer of client.post on, and the except clauses of
\* chat_completions around it.  A non-2xx answer is handled by
\* `except httpx.HTTPStatusError`, which reads error_data.get("error") and
\* catches json.JSONDecodeError only; everything else that raises ends in an
\* `except Exception` (of route_request or of chat_completions) as a 500.
HandleReply(rec, rp) ==
    CASE rp.kind = "ok" /\ rp.body = "completion" ->
           [rec EXCEPT !.pc = "done", !.reply = rp, !.status = 200,
                       !.usage = normalize_usage(rp.usage)]
      [] rp.kind = "ok" /\ rp.body # "completion" ->
           Failed(rec, rp, 500, "InternalError")
      [] rp.kind = "status" /\ rp.body # "array" ->
           Failed(rec, rp, rp.code, "UpstreamError")
      [] rp.kind = "status" /\ rp.body = "array" ->
           Failed(rec, rp, 500, "InternalError")
      [] OTHER -> Failed(rec, rp, 500, "InternalError")

\* the callers of route_request: an administrator in group vip, a plain user,
\* and a user granted ghost by name
RouteCallers ==
    {AdminToken, RemoteToken,
     [GoodHS EXCEPT !.sub = "bob", !.roles = <<"user">>, !.models = <<"ghost">>]}

\* A call route_request(request, auth_context), up to the outbound call.
CallRoute(r) ==
    /\ req[r].pc = "idle"
    /\ \E t \in RouteCallers, m \in AccessModels :
         req' = [req EXCEPT ![r] =
                    Routed([IdleReq EXCEPT !.kind = "route", !.token = t,
                                           !.model = m],
                           models_cfg[m])]
    /\ UNCHANGED <<storeVars, authVars, cfgVars>>

\* The upstream answers, or the 30 s timeout of the client passes.
Route_Respond(r) ==
    /\ req[r].pc = "upstream"
    /\ \E rp \in Replies : req' = [req EXCEPT ![r] = HandleReply(req[r], rp)]
    /\ UNCHANGED <<storeVars, authVars, cfgVars>>

NextForward ==
    \/ \E r \in Reqs : CallRoute(r)
    \/ \E r \in Reqs : Route_Respond(r)
    \/ \E r \in Reqs : Return(r)

SpecForward == InitNoEnvKey /\ [][NextForward]_vars

\* ------------------------------------------- get_auth_context on its own
\* tokens with and without oid, preferred_username, email and rate_limit; and
\* tokens with an empty sub, with exp equal to the current second, and with
\* sub, exp or iat not in the payload
ContextTokens ==
    {[GoodHS EXCEPT !.oid = o, !.preferred_username = pn, !.email = e,
                    !.rate_limit = rl] :
        o \in {"none", "oid-1"}, pn \in {"none", "al"},
        e \in {"none", "al@example.com"}, rl \in {Missing, 7, DefaultRateLimit}}
    \cup {RemoteToken, [RemoteToken EXCEPT !.rate_limit = Missing]}
    \cup {[GoodHS EXCEPT !.sub = ""], [GoodHS EXCEPT !.exp_in = 0],
          [GoodHS EXCEPT !.exp_in = -1]}
    \cup {[GoodHS EXCEPT !.missing = c] : c \in {"sub", "exp", "iat"}}

\* A call jwt_handler.get_auth_context(token), up to the await inside
\* validate_token.
CallAuthContext(r) ==
    /\ req[r].pc = "idle"
    /\ \E t \in ContextTokens :
         req' = [req EXCEPT ![r] =
                    ValidateBegin([IdleReq EXCEPT !.kind = "context", !.token = t])]
    /\ UNCHANGED <<authVars, notAuth>>

\* validate_token returned claims; AuthContext.from_claims runs.
BuildContext(r) ==
    /\ req[r].pc = "authed" /\ req[r].kind = "context"
    /\ req' = [req EXCEPT ![r] = ContextBuilt(req[r])]
    /\ UNCHANGED <<storeVars, authVars, cfgVars>>

NextContext ==
    \/ \E r \in Reqs : CallAuthContext(r)
    \/ \E r \in Reqs : V_FetchDone(r)
    \/ \E r \in Reqs : BuildContext(r)
    \/ \E r \in Reqs : Return(r)

SpecContext == InitNoEnvKey /\ [][NextContext]_vars

\* ------------------------------------------------ the limiter and a crash
\* The gateway process dies while a coroutine is inside check_rate_limit and
\* is started again: every coroutine is gone, the key-set cache is empty, the
\* configuration is loaded anew; the store keeps what reached it.  A caller
\* that was cut off keeps the await it was cut at until it calls again.
CutOff(rec) ==
    IF rec.pc \in {"rl_get", "rl_ttl", "rl_incr"}
    THEN [IdleReq EXCEPT !.error = "ProcessExit", !.failed_at = rec.pc]
    ELSE IdleReq

Crash ==
    /\ \E r \in Reqs : req[r].pc \in {"rl_get", "rl_ttl", "rl_incr"}
    /\ req' = [r \in Reqs |-> CutOff(req[r])]
    /\ jwks_cache' = NoJwks
    /\ jwks_age' = 0
    /\ models_cfg' = StaticModels
    /\ UNCHANGED <<storeVars, remote_up, remote_keys, env_api_key>>

NextCrash == NextQuota \/ Crash

SpecCrash == InitNoEnvKey /\ [][NextCrash]_vars

\* ======================================================== claims: limiter
CheckDone(r) == req[r].kind = "check" /\ req[r].pc = "done"
StatusDone(r) == req[r].kind = "status" /\ req[r].pc = "done"

\* C3: with one check call at a time and the store answering, a check returns
\* True exactly when the counter it read was below its limit, and has then
\* raised the counter by exactly one; it raises QuotaExceeded (429) exactly
\* when the counter it read was at or above the limit, and has then left the
\* counter as it was.  A counter's value goes down only when its TTL runs out.
C3_Outcome ==
    \A r \in Reqs :
        (CheckDone(r) /\ ~req[r].store_error) =>
            /\ req[r].returned <=> (req[r].status # 429)
            /\ req[r].returned =>
                  /\ req[r].current_count < req[r].limit
                  /\ req[r].post = req[r].pre + 1
            /\ req[r].status = 429 =>
                  /\ req[r].current_count >= req[r].limit
                  /\ req[r].post = req[r].pre
C3_Monotone ==
    \A k \in QuotaKeys :
        counters'[k].count < counters[k].count =>
            counters[k].ttl = 1 /\ counters'[k] = NoCounter
C3_SequentialCheck == []C3_Outcome /\ [][C3_Monotone]_vars
\* the counter stands at the largest limit and the next check is refused
C3_Witness ==
    \E r \in Reqs :
        /\ CheckDone(r) /\ ~req[r].store_error /\ req[r].status = 429
        /\ req[r].limit = MaxLimit /\ req[r].current_count = MaxLimit
        /\ counters[req[r].key].count = MaxLimit

\* C4: under any interleaving of check calls on one key, test and increment
\* are one atomic step: an admitted check never leaves the counter above the
\* limit it was admitted under.
C4_AtomicTestAndIncrement ==
    \A r \in Reqs :
        (CheckDone(r) /\ req[r].returned /\ ~req[r].store_error) =>
            req[r].post <= req[r].limit

\* C5: the expiry is set only by the increment that creates the counter; an
\* increment of a counter that already exists leaves its TTL where it was.
C5_FixedWindow ==
    [][\A k \in QuotaKeys :
         (counters[k].count > 0 /\ counters'[k].count > counters[k].count) =>
             counters'[k].ttl = counters[k].ttl]_vars

\* C6: a 429 carries Retry-After between 0 and window, X-RateLimit-Remaining 0
\* and X-RateLimit-Limit equal to the limit applied.
C6_RetryAfterRange ==
    \A r \in Reqs :
        (req[r].kind = "check" /\ req[r].status = 429) =>
            /\ 0 <= req[r].retry_after /\ req[r].retry_after <= window
            /\ req[r].hdr_remaining = 0
            /\ req[r].hdr_limit = req[r].limit

C8_StatusRead ==
    \A r \in Reqs :
        (StatusDone(r) /\ ~req[r].store_error) =>
            /\ req[r].used = req[r].current_count
            /\ req[r].remaining = Max(0, req[r].limit - req[r].used)
            /\ req[r].reset_in = IF req[r].existed THEN req[r].ttl ELSE window
            /\ req[r].post = req[r].pre

\* ====================================================== claims: validator
ValidateDone(r) == req[r].kind = "validate" /\ req[r].pc = "done"
Expired(t) == t.form = "jwt" /\ t.missing # "exp" /\ t.exp_in < 0

\* C9: validate_token answers 401 for every token whose exp is in the past,
\* on both paths, whatever its signature, the cache and the endpoint.
C9_ExpiredIs401 ==
    \A r \in Reqs :
        (ValidateDone(r) /\ Expired(req[r].token)) => req[r].status = 401

\* C10: a missing or malformed token gets 401, and a 500 comes only from a
\* failed key-set download.
C10_MalformedIs401 ==
    \A r \in Reqs :
        ValidateDone(r) =>
            /\ req[r].token.form \in {"empty", "garbage"} => req[r].status = 401
            /\ req[r].status = 500 => req[r].exc = "FetchError"

\* the key set was at hand and get_signing_key found no key for the token:
\* the `if not signing_key: raise HTTPException(401)` of validate_token
KeyNotFound(r) == ValidateDone(r) /\ req[r].exc = "HTTPException"

\* C11: on the RS256 path, when the key set was obtained and holds no key for
\* the token's kid (or the token has no kid), validate_token answers 401.
C11_KeyNotFoundIs401 ==
    \A r \in Reqs : KeyNotFound(r) => req[r].status = 401

\* a well-formed, unexpired HS256 token signed with the pre-shared secret and
\* carrying sub, exp and iat
GoodLocal(t) ==
    /\ t.form = "jwt" /\ t.alg = "HS256" /\ t.sig = "secret"
    /\ t.missing = "none" /\ t.exp_in >= 0

\* C12: validate_token returns the claims of every well-formed, unexpired
\* HS256 token signed with the secret, whether or not the payload carries an
\* aud or iss claim (neither is checked on this path).
C12_LocalTokenAccepted ==
    \A r \in Reqs :
        (ValidateDone(r) /\ GoodLocal(req[r].token)) =>
            /\ req[r].validated /\ req[r].returned
            /\ req[r].status = 0 /\ req[r].exc = "none"

\* validate_token(token) is called by r in this step
ValidateCalled(r) ==
    req[r].pc = "idle" /\ req'[r].pc # "idle" /\ req'[r].kind = "validate"
\* the download r was waiting for ends in this step
FetchEnded(r) == req[r].pc = "fetching" /\ req'[r].pc # "fetching"
\* the token takes the RS256 branch
Asymmetric(t) == t.form # "empty" /\ ~is_local_token(t)

C13_Step ==
    /\ \A r \in Reqs :
         ValidateCalled(r) =>
           LET t == req'[r].token
               usable == jwks_cache.present /\ jwks_age < jwks_cache_ttl
           IN  /\ req'[r].pc = "fetching" <=> (Asymmetric(t) /\ ~usable)
               /\ (Asymmetric(t) /\ usable) =>
                     /\ req'[r].pc = "done"
                     /\ req'[r].validated <=> AsymOutcome(t, jwks_cache) = "ok"
               /\ jwks_cache' = jwks_cache /\ jwks_age' = jwks_age
    /\ \A r \in Reqs :
         FetchEnded(r) =>
           IF remote_up
             THEN jwks_cache' = remote_keys /\ jwks_age' = req[r].fetch_age
             ELSE jwks_cache' = jwks_cache /\ jwks_age' = jwks_age
    /\ jwks_cache' # jwks_cache =>
         \E r \in Reqs : FetchEnded(r) /\ Asymmetric(req[r].token)
\* C13: an RS256 validation downloads the key set exactly when the cache is
\* empty or at least jwks_cache_ttl old, and otherwise decides on the cached
\* set; a successful download replaces the cached set and its timestamp; an
\* HS256 validation never downloads and never changes the cache.
C13_FetchIffStale == [][C13_Step]_vars
\* one coroutine has just started a download because the cached set is stale,
\* while another was decided on the cached set
C13_Witness ==
    \E r, q \in Reqs :
       /\ req[r].kind = "validate" /\ req[r].pc = "fetching"
       /\ req[r].fetch_age = 0
       /\ jwks_cache.present /\ jwks_age >= jwks_cache_ttl
       /\ ValidateDone(q) /\ req[q].validated /\ Asymmetric(req[q].token)


C14_Step ==
    \A r \in Reqs :
       (FetchEnded(r) /\ ~remote_up) =>
          /\ req'[r].pc = "done" /\ req'[r].status = 500
          /\ ~req'[r].validated /\ ~req'[r].returned
          /\ jwks_cache' = jwks_cache /\ jwks_age' = jwks_age
\* C14: when the cached key set is stale or missing and the download fails,
\* validate_token answers 500; the stale set does not decide the token, and
\* the cache and its timestamp stay as they were.
C14_FetchFailureIs500 == [][C14_Step]_vars
\* a download failed over a stale cached set that holds the token's key
C14_Witness ==
    \E r \in Reqs :
       /\ ValidateDone(r) /\ req[r].exc = "FetchError" /\ req[r].status = 500
       /\ jwks_cache.present /\ jwks_age >= jwks_cache_ttl
       /\ AsymOutcome(req[r].token, jwks_cache) = "ok"

C15_Step ==
    \A r \in Reqs :
       (FetchEnded(r) /\ ~remote_up /\ jwks_cache.present) =>
          /\ req'[r].exc # "FetchError"
          /\ req'[r].validated <=> AsymOutcome(req[r].token, jwks_cache) = "ok"
\* C15: when the key-set download fails while an earlier key set is still in
\* the cache, the failure is swallowed: the token is decided on that cached
\* set and the caller does not see the download's failure.
C15_StaleServedOnFailure == [][C15_Step]_vars

\* ========================================================= claims: access
AccessDone(r) == req[r].kind = "access" /\ req[r].pc = "done"
HasRule(m) == get_access_control(m).defined

\* C16: for a model with no access-control rule check_access returns True
\* for every caller, whatever roles, groups and granted models it has.
C16_NoRuleAllows ==
    \A r \in Reqs :
        (AccessDone(r) /\ ~HasRule(req[r].model)) => req[r].allowed
\* a caller with no role, no group and no granted model asked about a model
\* without a rule
C16_Witness ==
    \E r \in Reqs :
        /\ AccessDone(r) /\ ~HasRule(req[r].model) /\ req[r].allowed
        /\ req[r].token.roles = <<>> /\ req[r].token.groups = <<>>
        /\ req[r].token.models = <<>>

\* C17: for a rule with required roles and no required groups, and a model
\* not granted to the caller by name, check_access returns True exactly when
\* the caller holds one of the required roles, names compared without regard
\* to case: with required role admin, <<"user">> is denied and <<"Admin">>
\* is allowed.
C17_RoleAnyOfIgnoringCase ==
    \A r \in Reqs :
        LET t == req[r].token
            m == req[r].model
        IN  (/\ AccessDone(r) /\ HasRule(m) /\ ~Granted(t, m)
             /\ RuleRoles(m) # {} /\ RuleGroups(m) = {}) =>
               /\ req[r].allowed <=> (RuleRoles(m) \cap HeldRoles(t) # {})
               /\ (m = "gpt-4" /\ t.roles = <<"user">>) => ~req[r].allowed
               /\ (m = "gpt-4" /\ t.roles = <<"Admin">>) => req[r].allowed
\* gpt-4 requires admin: one caller with role user was denied, another with
\* role Admin was allowed
C17_Witness ==
    \E r, q \in Reqs :
        /\ AccessDone(r) /\ req[r].model = "gpt-4" /\ ~Granted(req[r].token, "gpt-4")
        /\ req[r].token.roles = <<"user">> /\ ~req[r].allowed
        /\ AccessDone(q) /\ req[q].model = "gpt-4" /\ ~Granted(req[q].token, "gpt-4")
        /\ req[q].token.roles = <<"Admin">> /\ req[q].allowed

\* C18: when the model is in the caller's granted-model list check_access
\* returns True, even if the rule requires roles or groups the caller lacks.
C18_GrantedModelAllows ==
    \A r \in Reqs :
        (AccessDone(r) /\ Granted(req[r].token, req[r].model)) => req[r].allowed
\* a caller granted a model by name whose rule requires a role and a group it
\* does not hold
C18_Witness ==
    \E r \in Reqs :
        /\ AccessDone(r) /\ req[r].model = "secure"
        /\ Granted(req[r].token, "secure") /\ req[r].allowed
        /\ ~RolesOk(req[r].token, "secure") /\ ~GroupsOk(req[r].token, "secure")

\* C19: role and group requirements are separate any-of tests.  For a model
\* with a rule and not granted by name: with one list empty, holding one entry
\* of the other suffices; with both non-empty, access needs one required role
\* and one required group; when no test denies, access is allowed.
C19_IndependentAnyOf ==
    \A r \in Reqs :
        LET t == req[r].token
            m == req[r].model
            holdsRole == RuleRoles(m) \cap HeldRoles(t) # {}
            holdsGroup == RuleGroups(m) \cap HeldGroups(t) # {}
        IN  (AccessDone(r) /\ HasRule(m) /\ ~Granted(t, m)) =>
               req[r].allowed <=>
                 CASE RuleRoles(m) = {} /\ RuleGroups(m) = {} -> TRUE
                   [] RuleRoles(m) # {} /\ RuleGroups(m) = {} -> holdsRole
                   [] RuleRoles(m) = {} /\ RuleGroups(m) # {} -> holdsGroup
                   [] OTHER -> holdsRole /\ holdsGroup
\* the rule of secure requires a role and a group: a caller holding the role
\* but not the group was denied, a caller holding both was allowed, and a
\* caller holding the one group team requires was allowed there
C19_Witness ==
    \E r, q \in Reqs :
        /\ AccessDone(r) /\ req[r].model = "secure" /\ ~Granted(req[r].token, "secure")
        /\ RuleRoles("secure") \cap HeldRoles(req[r].token) # {}
        /\ RuleGroups("secure") \cap HeldGroups(req[r].token) = {}
        /\ ~req[r].allowed
        /\ AccessDone(q) /\ req[q].model \in {"secure", "team"}
        /\ ~Granted(req[q].token, req[q].model)
        /\ req[q].token.groups = <<"vip">> /\ req[q].allowed

\* ======================================================= claims: pipeline
StageOrder == <<"validate", "access", "quota", "forward">>
IsPrefix(a, b) == Len(a) <= Len(b) /\ \A i \in 1..Len(a) : a[i] = b[i]
InLimiter(rec) == rec.pc \in {"rl_get", "rl_ttl", "rl_incr"}

\* C1: every chat request runs its stages in the order token validation,
\* access check, quota check, upstream forward.  The stages a request has
\* entered are a prefix of that order; the limiter is entered, and a counter
\* exists, only for a request whose token was validated and whose access check
\* allowed; the upstream is called only after check_rate_limit returned True;
\* and a request that failed a stage is finished, with the failed stage the
\* last one it entered.
C1_StageOrder ==
    /\ \A r \in Reqs :
         LET rec == req[r] IN
         rec.kind = "chat" =>
           /\ IsPrefix(rec.trail, StageOrder)
           /\ ("quota" \in SeqToSet(rec.trail) \/ InLimiter(rec))
                 => rec.validated /\ rec.allowed
           /\ ("forward" \in SeqToSet(rec.trail) \/ rec.posted)
                 => rec.returned /\ rec.validated /\ rec.allowed
           /\ rec.failed_at # "none" =>
                 /\ rec.pc = "done" /\ rec.status \notin {0, 200}
                 /\ IF rec.failed_at = "header" THEN rec.trail = <<>>
                    ELSE rec.trail # <<>> /\ rec.trail[Len(rec.trail)] = rec.failed_at
                 /\ rec.failed_at # "forward" => ~rec.posted
                 /\ rec.failed_at \in {"header", "validate", "access"}
                       => ~rec.returned
    /\ \A k \in QuotaKeys :
         counters[k].count > 0 =>
           \E r \in Reqs : /\ req[r].key = k /\ req[r].kind = "chat"
                           /\ req[r].validated /\ req[r].allowed
\* a request went through all four stages and was answered 200, while another
\* stopped at the access check
C1_Witness ==
    \E r, q \in Reqs :
       /\ req[r].kind = "chat" /\ req[r].pc = "done" /\ req[r].status = 200
       /\ req[r].trail = StageOrder /\ req[r].posted
       /\ req[q].kind = "chat" /\ req[q].status = 403
       /\ req[q].failed_at = "access"

\* C2: an authenticated chat request for a model with no entry in the model
\* configuration ends in 404 and never reaches the limiter: it never enters
\* the quota stage and no counter of that model exists.
UnknownModels == {m \in ModelNames : ~StaticModels[m].present}
C2_UnknownModelIs404 ==
    /\ \A r \in Reqs :
         LET rec == req[r] IN
         (rec.kind = "chat" /\ rec.validated /\ rec.model \in UnknownModels) =>
           /\ "quota" \notin SeqToSet(rec.trail)
           /\ rec.pc = "done" => rec.status = 404
    /\ \A m \in UnknownModels, u \in Users : counters[QuotaKey(m, u)].count = 0

\* the credential the priority order selects for a request: its own header,
\* else the process-level key, else the key models.yaml holds for the model
\* ("none": no credential header goes out)
PriorityKey(rec) ==
    IF rec.api_key_hdr # "none" THEN rec.api_key_hdr
    ELSE IF env_api_key # "none" THEN env_api_key
    ELSE StaticModels[rec.model].api_key

\* C20: the credential sent upstream with a request is the first present of
\* its own credential header, the process-level credential and the model's
\* credential as loaded from the configuration, and none is sent when none of
\* them is present, whatever requests were served before.
C20_CredentialPriority ==
    \A r \in Reqs :
        (req[r].kind = "chat" /\ req[r].posted) => req[r].sent_key = PriorityKey(req[r])

\* ======================================================== claims: forward
RouteDone(r) == req[r].kind = "route" /\ req[r].pc = "done"

\* C21: no header of an outbound upstream request carries the caller's bearer
\* token, under every configured header name and prefix, with or without a
\* resolved credential.
C21_TokenNotForwarded ==
    \A r \in Reqs :
        req[r].posted =>
            /\ req[r].sent_headers # {}
            /\ \A h \in req[r].sent_headers : h.value # RawToken(req[r].token)
\* one request went out with its key as `Authorization: Bearer <key>`, the
\* other without any credential header
C21_Witness ==
    \E r, q \in Reqs :
        /\ req[r].posted /\ req[q].posted
        /\ \E h \in req[r].sent_headers :
              h.name = "Authorization" /\ h.prefix = "Bearer" /\ h.value = "cfgkey"
        /\ \A h \in req[q].sent_headers : h.name = "Content-Type"

\* C22: every response route_request returns carries a usage triple with
\* total_tokens = prompt_tokens + completion_tokens, whatever usage the
\* upstream body holds.
C22_UsageTotalIsSum ==
    \A r \in Reqs :
        (RouteDone(r) /\ req[r].status = 200) =>
            req[r].usage[3] = req[r].usage[1] + req[r].usage[2]

\* C23: when the upstream answers with a non-2xx status the caller receives
\* exactly that status as an UpstreamError, whatever the error body is.
C23_UpstreamStatusPassedThrough ==
    \A r \in Reqs :
        (RouteDone(r) /\ req[r].reply.kind = "status") =>
            req[r].status = req[r].reply.code /\ req[r].error = "UpstreamError"

\* C24: when the outbound call runs into the client's timeout the request
\* ends as an UpstreamError, not as an InternalError.
C24_TimeoutIsUpstreamError ==
    \A r \in Reqs :
        (RouteDone(r) /\ req[r].reply.kind = "timeout") =>
            req[r].error = "UpstreamError"

\* the caller is denied on the model: a rule exists, the model is not granted
\* by name, and a required role or group is not held
Denied(t, m) ==
    HasRule(m) /\ ~Granted(t, m) /\ ~(RolesOk(t, m) /\ GroupsOk(t, m))
\* what route_request answered before any outbound call
Refused(rec, code, error) ==
    /\ rec.pc = "done" /\ rec.status = code /\ rec.error = error
    /\ ~rec.posted /\ rec.reply = NoReply

\* C25: route_request tests its preconditions in the order entry, access,
\* endpoint: 404 ModelNotFound without an entry; else 403 AccessDenied when
\* the access check denies; else 500 MisconfiguredModel without an endpoint;
\* and in these three cases nothing is sent upstream.
C25_PreconditionOrder ==
    \A r \in Reqs :
        LET rec == req[r]
            entry == models_cfg[rec.model]
        IN  (rec.kind = "route" /\ rec.pc # "idle") =>
               IF ~entry.present THEN Refused(rec, 404, "ModelNotFound")
               ELSE IF Denied(rec.token, rec.model)
                 THEN Refused(rec, 403, "AccessDenied")
               ELSE IF entry.endpoint = "none"
                 THEN Refused(rec, 500, "MisconfiguredModel")
               ELSE rec.posted
\* a denied caller got 404 on a model without an entry, and a denied caller
\* got 403 on a model whose entry has no endpoint
C25_Witness ==
    \E r, q \in Reqs :
        /\ req[r].kind = "route" /\ req[r].status = 404
        /\ Denied(req[r].token, req[r].model)
        /\ req[q].kind = "route" /\ req[q].status = 403
        /\ models_cfg[req[q].model].endpoint = "none"

\* ======================================================= claims: context
ContextDone(r) == req[r].kind = "context" /\ req[r].pc = "done"

\* C26: for every token validate_token accepts an AuthContext is built with
\* user_id = oid when present, else sub; username = the first present of
\* preferred_username, email, user_id; rate_limit = the token's rate_limit
\* claim when it has one, else 100.
C26_ContextFromClaims ==
    \A r \in Reqs :
        LET t == req[r].token IN
        (ContextDone(r) /\ req[r].validated) =>
            /\ req[r].status = 0 /\ req[r].ctx.ok
            /\ req[r].ctx.user_id = IF t.oid # "none" THEN t.oid ELSE t.sub
            /\ req[r].ctx.username =
                 IF t.preferred_username # "none" THEN t.preferred_username
                 ELSE IF t.email # "none" THEN t.email
                 ELSE req[r].ctx.user_id
            /\ req[r].ctx.rate_limit =
                 IF t.rate_limit = Missing THEN DefaultRateLimit ELSE t.rate_limit

\* C27: every token for which validate_token returns claims has its exp after
\* the time of validation and a non-empty sub, and its payload holds sub, exp
\* and iat.
C27_ClaimsInvariant ==
    \A r \in Reqs :
        LET t == req[r].token IN
        (req[r].kind = "context" /\ req[r].validated) =>
            /\ t.missing = "none"
            /\ t.exp_in > 0
            /\ t.sub # ""

\* ==================================================== claims: termination
\* how far a request has come
Rank(pc) ==
    CASE pc = "idle" -> 0
      [] pc = "fetching" -> 1
      [] pc = "authed" -> 2
      [] pc = "rl_get" -> 3
      [] pc \in {"rl_ttl", "rl_incr"} -> 4
      [] pc = "bind" -> 5
      [] pc = "upstream" -> 6
      [] OTHER -> 7
\* Every step a request takes moves it forward, a finished request stays as
\* it is, the upstream call is made in the one step from bind, and a counter
\* grows by one in the one step a request leaves rl_incr.
C28_Step ==
    /\ \A r \in Reqs :
         /\ Rank(req'[r].pc) >= Rank(req[r].pc)
         /\ req[r].pc = "done" => req'[r] = req[r]
         /\ req'[r].trail # req[r].trail => Rank(req'[r].pc) > Rank(req[r].pc)
         /\ req'[r].posted # req[r].posted =>
               /\ req[r].pc = "bind" /\ req'[r].pc = "upstream"
               /\ \A q \in Reqs \ {r} : req'[q] = req[q]
    /\ \A k \in QuotaKeys :
         counters'[k].count > counters[k].count =>
            /\ counters'[k].count = counters[k].count + 1
            /\ \E r \in Reqs :
                  /\ req[r].pc = "rl_incr" /\ req[r].key = k
                  /\ req'[r].pc = "bind"
                  /\ \A q \in Reqs \ {r} : req'[q] = req[q]
\* a finished request has exactly one outcome: a 200, or a failure with its
\* status and stage
C28_Outcome ==
    \A r \in Reqs :
        req[r].pc = "done" =>
            (req[r].status = 200) # (req[r].failed_at # "none" /\ req[r].status >= 400)
\* C28: every chat request ends, completed or failed, when its I/O waits end
\* and the event loop keeps resuming it; each stage runs at most once and
\* nothing is retried, so a request makes at most one upstream call and one
\* counter increment.
C28_Terminates ==
    /\ []C28_Outcome
    /\ [][C28_Step]_vars
    /\ \A r \in Reqs : (req[r].pc # "idle") ~> (req[r].pc = "done")
\* both requests are finished, one answered 200 after an increment and an
\* upstream call, the other turned away with 429
C28_Witness ==
    \E r, q \in Reqs :
        /\ req[r].pc = "done" /\ req[r].status = 200 /\ req[r].posted
        /\ req[r].post = req[r].pre + 1
        /\ req[q].pc = "done" /\ req[q].status = 429

\* ======================================================= claims: effects
\* C29: a chat-completions request leaves the shared table of models as it
\* was loaded: no entry is added and no endpoint, credential or header name
\* of an entry changes.
C29_ConfigUnchanged == models_cfg = StaticModels

\* C30: INCR and EXPIRE reach the store as one unit: every counter that
\* exists has a time to live between 1 and window seconds, also after the
\* gateway crashed at any point inside check_rate_limit.
C30_CountersExpire ==
    \A k \in QuotaKeys :
        counters[k].count > 0 => counters[k].ttl \in 1..window
\* the process died right before `await pipe.execute()` of one caller (no
\* coroutine is left) and a counter is in the store with its expiry
C30_Witness ==
    /\ \A r \in Reqs : req[r].pc = "idle"
    /\ \E r \in Reqs : req[r].error = "ProcessExit" /\ req[r].failed_at = "rl_incr"
    /\ \E k \in QuotaKeys : counters[k].count > 0 /\ counters[k].ttl \in 1..window

\* ===================================================== claims: endpoints
\* a header of exactly two words whose first is the bearer scheme in any case
WellFormed(a) ==
    a.present /\ Len(a.parts) = 2 /\ a.parts[1] \in {"Bearer", "bearer", "BEARER"}
\* r's request to an authenticated endpoint arrives in this step
Arrives(r) ==
    req[r].pc = "idle" /\ req'[r].pc # "idle" /\ req'[r].kind \in {"chat", "ratelimit"}

C31_Step ==
    \A r \in Reqs :
        (Arrives(r) /\ ~WellFormed(req'[r].authz)) =>
            /\ req'[r].pc = "done" /\ req'[r].status = 401
            /\ req'[r].failed_at = "header" /\ req'[r].trail = <<>>
            /\ ~req'[r].validated /\ ~req'[r].allowed /\ ~req'[r].posted
            /\ UNCHANGED <<storeVars, authVars, cfgVars>>
\* C31: a request to /chat/completions or /rate-limit whose Authorization
\* header is absent, or is not exactly two words with the scheme bearer in any
\* case, is answered 401 in the step it arrives in: no token validation, no
\* key-set download, no access check, no store access, no upstream call.
C31_HeaderChecked ==
    /\ [][C31_Step]_vars
    /\ [](\A r \in Reqs :
            (req[r].kind \in {"chat", "ratelimit"} /\ ~WellFormed(req[r].authz)) =>
                req[r].pc = "done" /\ req[r].status = 401)
\* a /rate-limit request with a third word after the token and a chat request
\* without a header were both turned away, while the store holds a counter of
\* an admitted request
C31_Witness ==
    /\ \E r, q \in Reqs :
         /\ req[r].kind = "ratelimit" /\ req[r].status = 401
         /\ req[r].authz = Authz(<<"Bearer", "<token>", "extra">>)
         /\ req[q].kind = "chat" /\ req[q].status = 401 /\ req[q].authz = NoAuthz
    /\ \E k \in QuotaKeys : counters[k].count > 0

\* ======================================================= claims: masking
MaskDone(r) == req[r].kind \in {"router_mask", "endpoints_mask"} /\ req[r].pc = "done"
\* the mask has the secret's length, shows its last `visible` characters and
\* has a star at every position before them
Shows(secret, mask, visible) ==
    /\ Len(mask) = Len(secret)
    /\ \A i \in 1..Len(secret) :
         IF i > Len(secret) - visible THEN mask[i] = secret[i] ELSE mask[i] = "*"

C40_MaskDiffers ==
    \A r \in Reqs :
        (MaskDone(r) /\ \E i \in 1..Len(req[r].secret) : req[r].secret[i] # "*")
            => req[r].mask # req[r].secret

\* ================================================= claims: access, effects
\* r calls check_access in this step
AccessCalled(r) ==
    req[r].pc = "idle" /\ req'[r].pc = "done" /\ req'[r].kind = "access"

C33_Step ==
    \A r \in Reqs :
        AccessCalled(r) =>
            /\ UNCHANGED <<storeVars, authVars, cfgVars>>
            /\ \A q \in Reqs \ {r} : req'[q] = req[q]
HealthDone(r) == req[r].kind = "health" /\ req[r].pc = "done"

C34_Step ==
    \A r \in Reqs :
        /\ (req[r].pc = "idle" /\ req'[r].kind = "health") => req'[r].pc = "ping"
        /\ (req[r].pc = "ping" /\ req'[r].pc # "ping") =>
              /\ req'[r].pc = "done" /\ req'[r].status = 200 /\ req'[r].returned
              /\ req'[r].health = "healthy" <=> redis_up
              /\ req'[r].health = "unhealthy" <=> ~redis_up
              /\ req'[r].redis_status = "connected" <=> redis_up
\* C34: /health runs without a token and always answers 200: its status is
\* healthy exactly when the store answered the PING and unhealthy otherwise;
\* a store failure is in the body, never an error response.
C34_HealthAlwaysAnswers ==
    /\ [][C34_Step]_vars
    /\ [](\A r \in Reqs :
            req[r].kind = "health" =>
                /\ ~req[r].authz.present /\ ~req[r].validated
                /\ req[r].status \in {0, 200})
\* one probe was answered unhealthy with 200 while the store was away, another
\* healthy
C34_Witness ==
    \E r, q \in Reqs :
        /\ HealthDone(r) /\ req[r].status = 200 /\ req[r].health = "unhealthy"
        /\ req[r].store_error
        /\ HealthDone(q) /\ req[q].status = 200 /\ req[q].health = "healthy"

\* ================================================= claims: key-set cache
\* the cached pair was replaced in this step by what r downloaded: the whole
\* published set, with the time r read before its request
ReplacedBy(r) ==
    /\ FetchEnded(r) /\ remote_up
    /\ jwks_cache'.present /\ jwks_cache'.keys = remote_keys.keys
    /\ jwks_age' = req[r].fetch_age
\* the cached pair is the same, at most a second older
Kept ==
    /\ jwks_cache'.present = jwks_cache.present
    /\ jwks_cache'.keys = jwks_cache.keys
    /\ jwks_age' \in {jwks_age, Min(jwks_age + 1, jwks_cache_ttl)}

\* C35: whatever way concurrent validations refresh the cache, the cache is
\* empty or holds the complete key set of one download together with that
\* download's timestamp: every step keeps the pair or replaces both halves
\* with those of one download, and the keys are never a mix of two sets.
C35_WholesaleReplace ==
    /\ [][Kept \/ \E r \in Reqs : ReplacedBy(r)]_vars
    /\ [](IF jwks_cache.present
            THEN \E ks \in KeySets : jwks_cache.keys = ks.keys
            ELSE jwks_cache.keys = {} /\ jwks_age = 0)
\* two refreshes overlap: one has written the cache, the other, which started
\* earlier, is still waiting for its download, and the issuer has rotated its
\* keys in between
C35_Witness ==
    /\ jwks_cache.present /\ remote_keys.keys # jwks_cache.keys
    /\ \E r \in Reqs : req[r].pc = "fetching" /\ req[r].fetch_age > jwks_age

\* C38: no key set verifies a token more than jwks_cache_ttl seconds after the
\* gateway received it: the age the cache is judged by is never less than the
\* time since the set was received, and a set is used only while that age is
\* below the TTL.
C38_KeySetAge ==
    /\ \A r \in Reqs : req[r].kind = "validate" => req[r].key_age <= jwks_cache_ttl
    /\ (jwks_cache.present /\ jwks_age < jwks_cache_ttl) =>
          jwks_cache.received_ago <= jwks_age
\* a token was verified with a set received TTL - 1 seconds earlier, and the
\* set now cached was received later than the time it is stamped with
C38_Witness ==
    /\ \E r \in Reqs : ValidateDone(r) /\ req[r].validated
                         /\ req[r].key_age = jwks_cache_ttl - 1
    /\ jwks_cache.present /\ jwks_cache.received_ago < jwks_age

\* ==================================================== claims: credentials
\* the credentials clients supply in a request header
HeaderCredentials == {"hdrkey"}

\* C36: a credential that one request supplied in its header is never sent
\* upstream for a request that supplied none, in any order or interleaving of
\* requests.
C36_CredentialIsolation ==
    \A r \in Reqs :
        (req[r].kind = "chat" /\ req[r].posted /\ req[r].api_key_hdr = "none") =>
            req[r].sent_key \notin HeaderCredentials

\* ==================================================== claims: /rate-limit
\* what the chat endpoint enforces for the bearer of t on the model the
\* clients use: the counter it checks and raises, and the limit it passes
EnforcedKey(t) == QuotaKey("open", user_id(t))
EnforcedLimit(t) ==
    get_rate_limits("open", IF Len(t.groups) > 0 THEN t.groups[1] ELSE "none")

C37_Step ==
    \A r \in Reqs :
        (req[r].kind = "ratelimit" /\ req[r].pc = "st_get" /\ req'[r].pc = "st_ttl") =>
            req'[r].current_count = counters[EnforcedKey(req[r].token)].count
\* C37: /rate-limit reports what the chat endpoint enforces: the count it
\* reads for a user is the number of that user's requests admitted in the
\* current window, and the limit it reports is the limit the quota check
\* applies to that user.
C37_StatusMatchesEnforcement ==
    /\ [][C37_Step]_vars
    /\ [](\A r \in Reqs :
            (req[r].kind = "ratelimit" /\ req[r].pc = "done" /\ req[r].returned
                /\ ~req[r].store_error) =>
                /\ req[r].used = req[r].current_count
                /\ req[r].limit = EnforcedLimit(req[r].token))

\* ===================================================== claims: signature
\* C39: validate_token returns claims only for a token whose signature was
\* verified: with the pre-shared secret when its header says HS256, otherwise
\* with the key of its own key-id, and then only with algorithm RS256 and
\* with the configured audience and issuer in its payload.
C39_OnlyVerifiedTokens ==
    \A r \in Reqs :
        (ValidateDone(r) /\ req[r].validated) =>
            LET t == req[r].token IN
            IF t.alg = "HS256"
              THEN t.sig = "secret"
              ELSE /\ t.alg = "RS256" /\ t.kid # "none" /\ t.sig = t.kid
                   /\ t.aud = "ok" /\ t.iss = "ok"

====
